---------------------------- MODULE Spec2Model ----------------------------
(***************************************************************************)
(* State-machine model of the HalaOS futures DNS toolkit:                  *)
(*   - the keyed future multiplexer (crates/map/src/unorderd.rs),          *)
(*   - the unicast resolver engine (crates/dns/src/nslookup.rs) and its    *)
(*     UDP transport loops (crates/dns/src/rasi.rs),                       *)
(*   - the mDNS discovery engine (crates/dns/src/mdns.rs) and its loops.   *)
(* Each component has its own specification over its own variables; the    *)
(* variables of the other components are left unchanged.                   *)
(***************************************************************************)
EXTENDS Integers, Sequences, FiniteSets, TLC

(***************************************************************************)
(* Bounds of the model.                                                    *)
(***************************************************************************)
\* number of distinct keys used with the multiplexer
NumKeys == 2
\* number of insert() calls made on the multiplexer (one future each)
MaxFut == 3

\* number of lookup tasks (call_with) on one resolver session
NumLookups == 2
\* number of datagrams handed to the resolver's recv()
MaxRecv == 2

\* number of datagrams handed to the mDNS recv()
MaxMdnsRecv == 2
\* number of peer addresses datagrams come from
NumPeers == 2
\* the clock runs from 0 to MaxTime
MaxTime == 2
\* MdnsDiscover `intervals`, in clock ticks
Intervals == 2
\* number of ids an mDNS message may carry
NumMsgIds == 2
\* number of tasks that call the mDNS is_closed()
NumWatchers == 2
\* number of answer records in a response handed to parse_ip_addrs
MaxAns == 2

Keys == 1..NumKeys
Futs == 1..MaxFut
NoFut == 0
NoCur == <<0, 0>>

(***************************************************************************)
(* Multiplexer state (RawFutureWaitMap) and the consumer driving it.       *)
(***************************************************************************)
VARIABLES
    futs,         \* futs[k]: the future registered under key k, or NoFut
    ready_queue,  \* FIFO of keys to poll
    waker,        \* TRUE iff the outer waker is stored (Some)
    pc,           \* position of the poll_next call
    cur,          \* <<key, future>> taken out of the map and being polled
    woken,        \* the consumer task is scheduled to call poll_next
    resolved,     \* futures whose result is available
    armed,        \* futures holding a proxy waker that has not fired yet
    nfut,         \* number of insert() calls made so far
    keyOf,        \* keyOf[f]: the key future f was inserted under
    yielded,      \* sequence of <<key, value>> returned by poll_next
    superseded    \* history: futures that were still pending when a later
                  \* insert() was made under their key

muxVars == <<futs, ready_queue, waker, pc, cur, woken, resolved, armed,
             nfut, keyOf, yielded, superseded>>

(***************************************************************************)
(* Resolver state (RawDnsLookup), its callers and its UDP loops.           *)
(***************************************************************************)
VARIABLES
    is_closed,    \* RawDnsLookup.is_closed
    idgen,        \* RawDnsLookup.idgen, a u16
    sending,      \* RawDnsLookup.sending: FIFO of serialized queries
    kvSend,       \* waiters: a Send event is buffered
    kvResp,       \* waiters: the buffered Response events (datagrams), at
                  \* most one per id
    lpc,          \* lpc[t]: position of lookup task t in call_with
    lid,          \* lid[t]: the transaction id of lookup t
    lgot,         \* lgot[t]: the datagram the wait of lookup t yielded
    lres,         \* lres[t]: what call_with returned to lookup t
    spc,          \* position of the transport task in send()
    sendRet,      \* how the last send() call returned: "Ok", "InvalidState"
    sent,         \* the packets send() returned, in order
    nrecv,        \* number of recv() calls made
    recvLen,      \* the length of the buffer of the last recv() call
    recvRet,      \* what the last recv() call returned
    sloop,        \* udp_send_loop task: "run", "exit" (failed), "stopped"
    rloop,        \* udp_recv_loop task: "run", "exit" (failed), "stopped"
    sock,         \* the UDP socket: "open" or "shut"
    facade        \* the DnsLookup value: "alive" or "dropped"

dnsVars == <<is_closed, idgen, sending, kvSend, kvResp, lpc, lid, lgot, lres,
             spc, sendRet, sent, nrecv, recvLen, recvRet>>
udpVars == <<sloop, rloop, sock, facade>>

(***************************************************************************)
(* mDNS state (RawMdnsDiscover), its consumer and its three loops.         *)
(***************************************************************************)
VARIABLES
    m_is_closed,  \* RawMdnsDiscover.is_closed
    incoming,     \* mutable.incoming: FIFO of <<message, from>>
    outgoing,     \* mutable.outgoing: FIFO of serialized messages
    last_asking,  \* mutable.last_asking: NoTime (None) or an instant
    evSend,       \* event_map: a Send event is buffered
    evRecv,       \* event_map: a Receive event is buffered
    now,          \* the clock
    otpc,         \* position of the timeout task in timeout_instant /
                  \* on_timeout / multicast
    otDue,        \* the instant the timeout task sleeps until
    otRet,        \* what the last on_timeout() call returned
    mspc,         \* position of the transport task in the mDNS send()
    msendRet,     \* how the last mDNS send() call returned
    msent,        \* the packets the mDNS send() returned, in order
    mrpc,         \* position of the mDNS recv() call
    mrecvBuf,     \* the buffer of the last mDNS recv() call
    mrecvRet,     \* what the last mDNS recv() call returned
    mnrecv,       \* number of mDNS recv() calls made
    apc,          \* position of the consumer in accept()
    acceptRet,    \* how the last accept() call returned
    accepted,     \* the <<message, from>> pairs accept() returned, in order
    icpc,         \* position of each caller of is_closed(): "idle", "call",
                  \* "waiting", "done"
    tloop,        \* timeout_loop task: "run", "exit", "stopped"
    msloop,       \* mDNS send_loop task: "run", "exit", "stopped"
    mrloop,       \* mDNS recv_loop task: "run", "exit", "stopped"
    msock,        \* the multicast socket: "open" or "shut"
    mfacade       \* the MdnsDiscover value: "alive" or "dropped"

mdnsVars == <<m_is_closed, incoming, outgoing, last_asking, evSend, evRecv,
              now, otpc, otDue, otRet, mspc, msendRet, msent, mrpc, mrecvBuf,
              mrecvRet, mnrecv, apc, acceptRet, accepted, icpc>>
mloopVars == <<tloop, msloop, mrloop, msock, mfacade>>

\* One call of DnsLookup::lookup_ip.
VARIABLES
    ippc,         \* position of the call: "idle", "v6", "done", "failed"
    ipResp6,      \* answer records of the response to the AAAA query
    ipResp4,      \* answer records of the response to the A query
    addrs_v6,     \* lookup_ip's local of that name
    ipRet         \* the list lookup_ip returned

ipVars == <<ippc, ipResp6, ipResp4, addrs_v6, ipRet>>

vars == <<muxVars, dnsVars, udpVars, mdnsVars, mloopVars, ipVars>>

\* The value future f resolves to (distinct per future, distinct from keys
\* and future numbers).
ValueOf(f) == 100 + f

InitMux ==
    /\ futs = [k \in Keys |-> NoFut]
    /\ ready_queue = <<>>
    /\ waker = FALSE
    /\ pc = "idle"
    /\ cur = NoCur
    /\ woken = TRUE
    /\ resolved = {}
    /\ armed = {}
    /\ nfut = 0
    /\ keyOf = [f \in Futs |-> 0]
    /\ yielded = <<>>
    /\ superseded = {}

\* Future f has been returned by poll_next.
Yielded(f) ==
    \E i \in 1..Len(yielded) : yielded[i] = <<keyOf[f], ValueOf(f)>>

\* A wake that is lost: the stored waker is taken but never woken.
WakeOuterLost ==
    /\ waker' = FALSE
    /\ UNCHANGED woken

\* `let waker = inner.waker.take(); if let Some(waker) = waker { waker.wake() }`
WakeOuter ==
    IF waker
    THEN waker' = FALSE /\ woken' = TRUE
    ELSE UNCHANGED <<waker, woken>>

\* insert(k, fut): the future gets the next number.
Insert(k) ==
    /\ nfut < MaxFut
    /\ nfut' = nfut + 1
    /\ keyOf' = [keyOf EXCEPT ![nfut + 1] = k]
    /\ ready_queue' = Append(ready_queue, k)
    /\ futs' = [futs EXCEPT ![k] = nfut + 1]
    /\ WakeOuter
    /\ superseded' = superseded \cup
            {g \in 1..nfut : keyOf[g] = k /\ g \notin resolved /\ ~Yielded(g)}
    /\ UNCHANGED <<pc, cur, resolved, armed, yielded>>

\* The popped keys that have no future are skipped (`None => continue`).
RECURSIVE SkipStale(_, _)
SkipStale(q, fm) ==
    IF q = <<>> THEN q
    ELSE IF fm[Head(q)] # NoFut THEN q
    ELSE SkipStale(Tail(q), fm)

\* The body of the while loop run under the lock, from queue q and map fm:
\* either a future is taken out of the map to be polled outside the lock,
\* or the queue is exhausted and the call returns Poll::Pending.
PollLoop(q, fm) ==
    LET r == SkipStale(q, fm) IN
    IF r = <<>>
    THEN /\ ready_queue' = <<>>
         /\ futs' = fm
         /\ cur' = NoCur
         /\ pc' = "idle"
    ELSE /\ ready_queue' = Tail(r)
         /\ futs' = [fm EXCEPT ![Head(r)] = NoFut]
         /\ cur' = <<Head(r), fm[Head(r)]>>
         /\ pc' = "polling"

\* The consumer task is run by its executor: the wake flag is cleared and
\* poll_next is called.
PollEnter ==
    /\ pc = "idle"
    /\ woken
    /\ woken' = FALSE
    /\ pc' = "enter"
    /\ UNCHANGED <<futs, ready_queue, waker, cur, resolved, armed, nfut,
                   keyOf, yielded, superseded>>

\* poll_next without recording the caller's waker.
PollLockNoWaker ==
    /\ pc = "enter"
    /\ PollLoop(ready_queue, futs)
    /\ UNCHANGED <<waker, woken, resolved, armed, nfut, keyOf, yielded, superseded>>

\* poll_next takes the lock, records the waker and runs the loop.
PollLock ==
    /\ pc = "enter"
    /\ waker' = TRUE
    /\ PollLoop(ready_queue, futs)
    /\ UNCHANGED <<woken, resolved, armed, nfut, keyOf, yielded, superseded>>

\* The future is polled outside the lock with its proxy waker.  Ready: the
\* call returns (key, r) and the consumer goes on to ask for the next item.
\* Pending: the future keeps the proxy waker.
PollFuture ==
    /\ pc = "polling"
    /\ IF cur[2] \in resolved
       THEN /\ yielded' = Append(yielded, <<cur[1], ValueOf(cur[2])>>)
            /\ pc' = "idle"
            /\ cur' = NoCur
            /\ woken' = TRUE
            /\ UNCHANGED armed
       ELSE /\ armed' = armed \cup {cur[2]}
            /\ pc' = "pending"
            /\ UNCHANGED <<yielded, cur, woken>>
    /\ UNCHANGED <<futs, ready_queue, waker, resolved, nfut, keyOf, superseded>>

\* The lock is taken again, the future is put back and the loop goes on.
PollReinsert ==
    /\ pc = "pending"
    /\ PollLoop(ready_queue, [futs EXCEPT ![cur[1]] = cur[2]])
    /\ UNCHANGED <<waker, woken, resolved, armed, nfut, keyOf, yielded, superseded>>

\* A future is live while it is in the map or being polled.
Live(f) == f \in 1..nfut /\ (futs[keyOf[f]] = f \/ cur[2] = f)

\* The computation behind a live future finishes: its next poll is Ready.
Resolve(f) ==
    /\ Live(f)
    /\ f \notin resolved
    /\ resolved' = resolved \cup {f}
    /\ UNCHANGED <<futs, ready_queue, waker, pc, cur, woken, armed, nfut,
                   keyOf, yielded, superseded>>

\* FutureWaitMapWaker::wake_by_ref for the proxy waker future f holds.
WakeByRef(f) ==
    /\ f \in armed
    /\ armed' = armed \ {f}
    /\ ready_queue' = Append(ready_queue, keyOf[f])
    /\ WakeOuter
    /\ UNCHANGED <<futs, pc, cur, resolved, nfut, keyOf, yielded, superseded>>

InsertAny == \E k \in Keys : Insert(k)

\* insert() under a key that no earlier insert() used.
InsertDistinct ==
    \E k \in Keys : (\A g \in 1..nfut : keyOf[g] # k) /\ Insert(k)

(***************************************************************************)
(* The resolver: DnsLookupNetwork and DnsLookup::call_with.                *)
(***************************************************************************)
\* AtomicU16: ids wrap at 2^16.
IdModulus == 65536
\* The DNS header length recv() requires.
HeaderLen == 12

Lookups == 1..NumLookups

\* Wire format of the 16-bit id: two bytes, big-endian.
HiByte(id) == id \div 256
LoByte(id) == id % 256
FromBeBytes(hi, lo) == hi * 256 + lo
FromLeBytes(hi, lo) == lo * 256 + hi

\* A datagram: the two id bytes, the length, and what the codec makes of it:
\* "NoError", "ServFail", "NXDomain" are responses with that response code,
\* "Query" is a message not tagged as a response, "Garbage" does not parse.
NoDg == [hi |-> 0, lo |-> 0, len |-> 0, kind |-> "None"]
Rcodes == {"NoError", "ServFail", "NXDomain"}
DgKinds == Rcodes \cup {"Query", "Garbage"}

\* The header id a reader of the wire format sees in datagram d.
WireId(d) == FromBeBytes(d.hi, d.lo)

\* The serialized query of transaction id (Message::to_vec).
QueryPacket(id) == [hi |-> HiByte(id), lo |-> LoByte(id)]

\* The ids in use on the session, and the ids whose two bytes are those of
\* an id in use, swapped.
UsedIds == {lid[t] : t \in {u \in Lookups : lpc[u] # "new"}}
NetIds == UsedIds \cup {FromBeBytes(LoByte(i), HiByte(i)) : i \in UsedIds}

\* The datagrams the network may deliver: full-length ones of every kind and
\* undersized ones.
Datagrams ==
    {[hi |-> HiByte(i), lo |-> LoByte(i), len |-> HeaderLen, kind |-> k] :
        i \in NetIds, k \in DgKinds}
    \cup
    {[hi |-> HiByte(i), lo |-> LoByte(i), len |-> HeaderLen - 1,
      kind |-> "Garbage"] : i \in NetIds}

NoRes == [tag |-> "None", code |-> 0]

\* RawDnsLookup::default().
InitDns ==
    /\ is_closed = FALSE
    /\ idgen = 0
    /\ sending = <<>>
    /\ kvSend = FALSE
    /\ kvResp = {}
    /\ lpc = [t \in Lookups |-> "new"]
    /\ lid = [t \in Lookups |-> 0]
    /\ lgot = [t \in Lookups |-> NoDg]
    /\ lres = [t \in Lookups |-> NoRes]
    /\ spc = "idle"
    /\ sendRet = "None"
    /\ sent = <<>>
    /\ nrecv = 0
    /\ recvLen = 0
    /\ recvRet = "None"

InitUdp ==
    /\ sloop = "run"
    /\ rloop = "run"
    /\ sock = "open"
    /\ facade = "alive"

\* KeyWaitMap::insert(LookupEvent::Send, _): the waiting send() is woken,
\* or the event is buffered.
KwInsertSend ==
    IF spc = "waiting"
    THEN spc' = "woke" /\ UNCHANGED kvSend
    ELSE kvSend' = TRUE /\ UNCHANGED spc

\* KeyWaitMap::insert(LookupEvent::Response(id), d): one lookup waiting on
\* the key is woken with d; with none waiting d is buffered under the key,
\* replacing what was buffered there.
KwInsertResp(id, d) ==
    IF \E t \in Lookups : lpc[t] = "waiting" /\ lid[t] = id
    THEN /\ \E t \in Lookups :
              /\ lpc[t] = "waiting" /\ lid[t] = id
              /\ lpc' = [lpc EXCEPT ![t] = "got"]
              /\ lgot' = [lgot EXCEPT ![t] = d]
         /\ UNCHANGED kvResp
    ELSE /\ kvResp' = {e \in kvResp : e[1] # id} \cup {<<id, d>>}
         /\ UNCHANGED <<lpc, lgot>>

\* call_with, `idgen.fetch_add(1)`.  The lookup tasks are interchangeable:
\* they are numbered in the order in which they start.
CallAlloc(t) ==
    /\ lpc[t] = "new"
    /\ \A u \in 1..(t - 1) : lpc[u] # "new"
    /\ lid' = [lid EXCEPT ![t] = idgen]
    /\ idgen' = (idgen + 1) % IdModulus
    /\ lpc' = [lpc EXCEPT ![t] = "alloc"]
    /\ UNCHANGED <<is_closed, sending, kvSend, kvResp, lgot, lres, spc,
                   sendRet, sent, nrecv, recvLen, recvRet>>

\* call_with, `sending.lock().await.push_back(buf)`.
CallPush(t) ==
    /\ lpc[t] = "alloc"
    /\ sending' = Append(sending, QueryPacket(lid[t]))
    /\ lpc' = [lpc EXCEPT ![t] = "pushed"]
    /\ UNCHANGED <<is_closed, idgen, kvSend, kvResp, lid, lgot, lres, spc,
                   sendRet, sent, nrecv, recvLen, recvRet>>

\* call_with, `waiters.insert(LookupEvent::Send, ..)`.
CallSignal(t) ==
    /\ lpc[t] = "pushed"
    /\ KwInsertSend
    /\ lpc' = [lpc EXCEPT ![t] = "signalled"]
    /\ UNCHANGED <<is_closed, idgen, sending, kvResp, lid, lgot, lres,
                   sendRet, sent, nrecv, recvLen, recvRet>>

\* call_with, `waiters.wait(&LookupEvent::Response(id), ())`: a buffered
\* response is taken at once, otherwise the task is registered.
CallWait(t) ==
    /\ lpc[t] = "signalled"
    /\ IF \E e \in kvResp : e[1] = lid[t]
       THEN \E e \in kvResp :
              /\ e[1] = lid[t]
              /\ kvResp' = kvResp \ {e}
              /\ lgot' = [lgot EXCEPT ![t] = e[2]]
              /\ lpc' = [lpc EXCEPT ![t] = "got"]
       ELSE /\ lpc' = [lpc EXCEPT ![t] = "waiting"]
            /\ UNCHANGED <<kvResp, lgot>>
    /\ UNCHANGED <<is_closed, idgen, sending, kvSend, lid, lres, spc,
                   sendRet, sent, nrecv, recvLen, recvRet>>

\* The caller drops the call_with future while it waits for the response:
\* the wait is cancelled and the lookup is no longer registered.
CallDrop(t) ==
    /\ lpc[t] = "waiting"
    /\ lpc' = [lpc EXCEPT ![t] = "dropped"]
    /\ UNCHANGED <<is_closed, idgen, sending, kvSend, kvResp, lid, lgot, lres,
                   spc, sendRet, sent, nrecv, recvLen, recvRet>>

\* IdModulus - 1 further call_with calls are made on the open session one
\* after the other, each with its query sent and its response consumed
\* before the next: their ids are all ids but the one allocated last, and
\* the counter ends one below its value.  (Their packets are not recorded in
\* `sent`.)  The run is made when the id allocated last is that of a
\* dropped lookup.
CallWrap ==
    /\ ~is_closed
    /\ sending = <<>>
    /\ \A t \in Lookups : lpc[t] \in {"new", "done", "dropped"}
    /\ \E t \in Lookups :
          lpc[t] = "dropped" /\ lid[t] = (idgen + IdModulus - 1) % IdModulus
    /\ \E t \in Lookups : lpc[t] = "new"
    /\ idgen' = (idgen + IdModulus - 1) % IdModulus
    /\ UNCHANGED <<is_closed, sending, kvSend, kvResp, lpc, lid, lgot, lres,
                   spc, sendRet, sent, nrecv, recvLen, recvRet>>

\* call_with reporting a fixed response code.
OutcomeFixedCode(d) ==
    IF d.kind = "Garbage" THEN [tag |-> "ProtoError", code |-> 0]
    ELSE IF d.kind = "Query" THEN [tag |-> "InvalidType", code |-> "Query"]
    ELSE IF d.kind # "NoError" THEN [tag |-> "ServerError", code |-> "ServFail"]
    ELSE [tag |-> "Ok", code |-> 0]

\* call_with, what is made of the response: Message::from_vec, the message
\* type check, the response code check, the parser.
Outcome(d) ==
    IF d.kind = "Garbage" THEN [tag |-> "ProtoError", code |-> 0]
    ELSE IF d.kind = "Query" THEN [tag |-> "InvalidType", code |-> "Query"]
    ELSE IF d.kind # "NoError" THEN [tag |-> "ServerError", code |-> d.kind]
    ELSE [tag |-> "Ok", code |-> 0]

\* call_with returns.
CallFinish(t) ==
    /\ lpc[t] = "got"
    /\ lres' = [lres EXCEPT ![t] = Outcome(lgot[t])]
    /\ lgot' = [lgot EXCEPT ![t] = NoDg]
    /\ lpc' = [lpc EXCEPT ![t] = "done"]
    /\ UNCHANGED <<is_closed, idgen, sending, kvSend, kvResp, lid, spc,
                   sendRet, sent, nrecv, recvLen, recvRet>>

\* send() checking the closed flag before the queue.
SendPopClosedFirst ==
    /\ spc \in {"idle", "woke"}
    /\ IF is_closed
       THEN /\ sendRet' = "InvalidState"
            /\ spc' = "idle"
            /\ UNCHANGED <<sending, sent>>
       ELSE IF sending # <<>>
       THEN /\ sendRet' = "Ok"
            /\ sent' = Append(sent, Head(sending))
            /\ sending' = Tail(sending)
            /\ spc' = "idle"
       ELSE /\ spc' = "chk"
            /\ UNCHANGED <<sending, sent, sendRet>>
    /\ UNCHANGED <<is_closed, idgen, kvSend, kvResp, lpc, lid, lgot, lres,
                   nrecv, recvLen, recvRet>>

\* send() taking the newest packet of the queue.
SendPopBack ==
    /\ spc \in {"idle", "woke"}
    /\ IF sending # <<>>
       THEN /\ sendRet' = "Ok"
            /\ sent' = Append(sent, sending[Len(sending)])
            /\ sending' = SubSeq(sending, 1, Len(sending) - 1)
            /\ spc' = "idle"
       ELSE /\ spc' = "chk"
            /\ UNCHANGED <<sending, sent, sendRet>>
    /\ UNCHANGED <<is_closed, idgen, kvSend, kvResp, lpc, lid, lgot, lres,
                   nrecv, recvLen, recvRet>>

\* send(), `sending.lock().await.pop_front()`: a queued packet is returned.
SendPop ==
    /\ spc \in {"idle", "woke"}
    /\ IF sending # <<>>
       THEN /\ sendRet' = "Ok"
            /\ sent' = Append(sent, Head(sending))
            /\ sending' = Tail(sending)
            /\ spc' = "idle"
       ELSE /\ spc' = "chk"
            /\ UNCHANGED <<sending, sent, sendRet>>
    /\ UNCHANGED <<is_closed, idgen, kvSend, kvResp, lpc, lid, lgot, lres,
                   nrecv, recvLen, recvRet>>

\* send(), `if is_closed.load() { return Err(InvalidState) }`.
SendCheck ==
    /\ spc = "chk"
    /\ IF is_closed
       THEN sendRet' = "InvalidState" /\ spc' = "idle"
       ELSE spc' = "reg" /\ UNCHANGED sendRet
    /\ UNCHANGED <<is_closed, idgen, sending, kvSend, kvResp, lpc, lid, lgot,
                   lres, sent, nrecv, recvLen, recvRet>>

\* send(), `waiters.wait(&LookupEvent::Send, ())`: a buffered event is
\* taken at once, otherwise the task is registered.
SendWait ==
    /\ spc = "reg"
    /\ IF kvSend
       THEN kvSend' = FALSE /\ spc' = "woke"
       ELSE spc' = "waiting" /\ UNCHANGED kvSend
    /\ UNCHANGED <<is_closed, idgen, sending, kvResp, lpc, lid, lgot, lres,
                   sendRet, sent, nrecv, recvLen, recvRet>>

\* recv() reading the id bytes in the wrong order.
PacketIdLe(d) == FromLeBytes(d.hi, d.lo)

\* recv(), `u16::from_be_bytes(id_buf)` of the first two bytes.
PacketId(d) == FromBeBytes(d.hi, d.lo)

\* recv() without the length check.
RecvNoLengthCheck(d) ==
    /\ nrecv < MaxRecv
    /\ nrecv' = nrecv + 1
    /\ recvLen' = d.len
    /\ IF is_closed
       THEN /\ recvRet' = "InvalidState"
            /\ UNCHANGED <<kvResp, lpc, lgot>>
       ELSE /\ KwInsertResp(PacketId(d), d)
            /\ recvRet' = "Ok"
    /\ UNCHANGED <<is_closed, idgen, sending, kvSend, lid, lres, spc,
                   sendRet, sent>>

\* recv() that publishes a response only to a lookup that waits for it.
RecvDropsUnmatched(d) ==
    /\ nrecv < MaxRecv
    /\ nrecv' = nrecv + 1
    /\ recvLen' = d.len
    /\ IF is_closed
       THEN /\ recvRet' = "InvalidState"
            /\ UNCHANGED <<kvResp, lpc, lgot>>
       ELSE IF d.len < HeaderLen
       THEN /\ recvRet' = "TooShort"
            /\ UNCHANGED <<kvResp, lpc, lgot>>
       ELSE /\ IF \E t \in Lookups : lpc[t] = "waiting" /\ lid[t] = PacketId(d)
               THEN KwInsertResp(PacketId(d), d)
               ELSE UNCHANGED <<kvResp, lpc, lgot>>
            /\ recvRet' = "Ok"
    /\ UNCHANGED <<is_closed, idgen, sending, kvSend, lid, lres, spc,
                   sendRet, sent>>

\* recv(buf).
Recv(d) ==
    /\ nrecv < MaxRecv
    /\ nrecv' = nrecv + 1
    /\ recvLen' = d.len
    /\ IF is_closed
       THEN /\ recvRet' = "InvalidState"
            /\ UNCHANGED <<kvResp, lpc, lgot>>
       ELSE IF d.len < HeaderLen
       THEN /\ recvRet' = "TooShort"
            /\ UNCHANGED <<kvResp, lpc, lgot>>
       ELSE /\ KwInsertResp(PacketId(d), d)
            /\ recvRet' = "Ok"
    /\ UNCHANGED <<is_closed, idgen, sending, kvSend, lid, lres, spc,
                   sendRet, sent>>

\* close() that also discards the queued packets.
CloseClearsQueue ==
    /\ is_closed' = TRUE
    /\ sending' = <<>>
    /\ KwInsertSend
    /\ UNCHANGED <<idgen, kvResp, lpc, lid, lgot, lres, sendRet, sent, nrecv,
                   recvLen, recvRet>>

\* close().
Close ==
    /\ is_closed' = TRUE
    /\ KwInsertSend
    /\ UNCHANGED <<idgen, sending, kvResp, lpc, lid, lgot, lres, sendRet,
                   sent, nrecv, recvLen, recvRet>>

(***************************************************************************)
(* DnsLookup::lookup_ip and parse_ip_addrs (crates/dns/src/nslookup.rs).   *)
(***************************************************************************)
\* The types of the answer records of a response.
RecTypes == {"A", "AAAA", "CNAME"}

\* The answer sections a response may carry.
AnswerLists == UNION {[1..n -> RecTypes] : n \in 0..MaxAns}

\* The address family of the data of an A or AAAA record.
AddrOf(r) == IF r = "A" THEN "V4" ELSE "V6"

\* An A or AAAA record.
IsAddrRecord(r) == r \in {"A", "AAAA"}

\* parse_ip_addrs: the addresses of the A and of the AAAA records, in the
\* order of the answer section.
ParseIpAddrs(answers) ==
    LET kept == SelectSeq(answers, IsAddrRecord)
    IN  [i \in 1..Len(kept) |-> AddrOf(kept[i])]

InitIp ==
    /\ ippc = "idle"
    /\ ipResp6 = <<>>
    /\ ipResp4 = <<>>
    /\ addrs_v6 = <<>>
    /\ ipRet = <<>>

\* lookup_ip, the call_with for AAAA returns a response with these answers.
LookupIpV6(answers) ==
    /\ ippc = "idle"
    /\ ipResp6' = answers
    /\ addrs_v6' = ParseIpAddrs(answers)
    /\ ippc' = "v6"
    /\ UNCHANGED <<ipResp4, ipRet>>

\* lookup_ip, the call_with for A returns a response with these answers:
\* `addrs_v6.append(&mut addrs_v4)`.
LookupIpV4(answers) ==
    /\ ippc = "v6"
    /\ ipResp4' = answers
    /\ ipRet' = addrs_v6 \o ParseIpAddrs(answers)
    /\ ippc' = "done"
    /\ UNCHANGED <<ipResp6, addrs_v6>>

\* lookup_ip, one of the two call_with calls fails: `?`.
LookupIpFail ==
    /\ ippc \in {"idle", "v6"}
    /\ ippc' = "failed"
    /\ UNCHANGED <<ipResp6, ipResp4, addrs_v6, ipRet>>

(***************************************************************************)
(* mDNS discovery engine (crates/dns/src/mdns.rs).                         *)
(***************************************************************************)
Peers == 1..NumPeers
Watchers == 1..NumWatchers
NoTime == -1

\* The ids a DNS message may carry.
MsgIds == 0..(NumMsgIds - 1)

\* A DNS message as far as the session looks at it: its id, `self` iff an
\* additional record is named by the session's own id, `svc` iff an answer
\* record is named by the configured service name.
Messages == [id : MsgIds, self : BOOLEAN, svc : BOOLEAN]

\* The buffers the network may deliver: serialized messages and buffers that
\* are not a DNS message.
NoBuf == [kind |-> "None", id |-> 0, self |-> FALSE, svc |-> FALSE]

\* Message::to_vec.
ToVec(m) == [kind |-> "Message", id |-> m.id, self |-> m.self, svc |-> m.svc]

\* The buffers the network may deliver: serialized messages (recv() does not
\* read the id, one id is delivered) and buffers that are not a DNS message.
MdnsBufs ==
    {ToVec(m) : m \in {x \in Messages : x.id = 0}}
    \cup {[kind |-> "Garbage", id |-> 0, self |-> FALSE, svc |-> FALSE]}

\* Message::from_vec succeeds.
Parses(b) == b.kind = "Message"

\* Message::from_vec, the message of a buffer that parses.
FromVec(b) == [id |-> b.id, self |-> b.self, svc |-> b.svc]

\* on_timeout: the PTR query for the service name (no answer, no additional)
\* with the id that rand::random() returned.
QueryMessage(id) == [id |-> id, self |-> FALSE, svc |-> FALSE]

\* multicast: `message.add_additional(Record::from_rdata(self.0.id, ..))`.
AddSelfId(m) == [m EXCEPT !.self = TRUE]

\* RawMdnsDiscover::new.
InitMdns ==
    /\ m_is_closed = FALSE
    /\ incoming = <<>>
    /\ outgoing = <<>>
    /\ last_asking = NoTime
    /\ evSend = FALSE
    /\ evRecv = FALSE
    /\ now = 0
    /\ otpc = "instant"
    /\ otDue = 0
    /\ otRet = "None"
    /\ mspc = "top"
    /\ msendRet = "None"
    /\ msent = <<>>
    /\ mrpc = "idle"
    /\ mrecvBuf = NoBuf
    /\ mrecvRet = "None"
    /\ mnrecv = 0
    /\ apc = "idle"
    /\ acceptRet = "None"
    /\ accepted = <<>>
    /\ icpc = [w \in Watchers |-> "idle"]

\* MdnsDiscover::all: the three loops are spawned on the open socket.
InitMdnsLoops ==
    /\ tloop = "run"
    /\ msloop = "run"
    /\ mrloop = "run"
    /\ msock = "open"
    /\ mfacade = "alive"

otVars == <<otpc, otDue, otRet>>
msVars == <<msendRet, msent>>
mrVars == <<mrpc, mrecvBuf, mrecvRet, mnrecv>>
acVars == <<acceptRet, accepted>>

\* KeyWaitMap::insert(MdnsDiscoverEvent::Send, ()): one of the tasks waiting
\* for the key (send(), is_closed()) is woken, or the event is buffered.
MdnsInsertSend ==
    IF mspc = "waiting" \/ \E w \in Watchers : icpc[w] = "waiting"
    THEN /\ \/ mspc = "waiting" /\ mspc' = "top" /\ UNCHANGED icpc
            \/ \E w \in Watchers :
                  /\ icpc[w] = "waiting"
                  /\ icpc' = [icpc EXCEPT ![w] = "call"]
                  /\ UNCHANGED mspc
         /\ UNCHANGED evSend
    ELSE evSend' = TRUE /\ UNCHANGED <<mspc, icpc>>

\* KeyWaitMap::insert(MdnsDiscoverEvent::Receive, ()): the waiting accept()
\* is woken, or the event is buffered.
MdnsInsertReceive ==
    IF apc = "waiting"
    THEN apc' = "top" /\ UNCHANGED evRecv
    ELSE evRecv' = TRUE /\ UNCHANGED apc

\* close().
MdnsClose ==
    /\ m_is_closed' = TRUE
    /\ MdnsInsertSend
    /\ MdnsInsertReceive
    /\ UNCHANGED <<incoming, outgoing, last_asking, now, otVars, msVars,
                   mrVars, acVars>>

\* The clock advances, up to MaxTime and further while the sleep of the
\* timeout task of a closed session has not ended.
Tick ==
    /\ now < MaxTime \/ (m_is_closed /\ otpc = "sleep" /\ now < otDue)
    /\ now' = now + 1
    /\ UNCHANGED <<m_is_closed, incoming, outgoing, last_asking, evSend,
                   evRecv, otVars, mspc, icpc, msVars, mrVars, apc, acVars>>

\* timeout_instant() counting the interval from the current instant.
TimeoutInstantFromNow ==
    /\ otpc = "instant"
    /\ IF m_is_closed
       THEN otpc' = "end" /\ UNCHANGED otDue
       ELSE /\ otDue' = IF last_asking = NoTime THEN now
                        ELSE now + Intervals
            /\ otpc' = "sleep"
    /\ UNCHANGED <<m_is_closed, incoming, outgoing, last_asking, evSend,
                   evRecv, now, otRet, mspc, icpc, msVars, mrVars, apc, acVars>>

\* timeout_instant(): None on a closed session, else last_asking + intervals,
\* or the current instant when nothing was asked yet.
TimeoutInstant ==
    /\ otpc = "instant"
    /\ IF m_is_closed
       THEN otpc' = "end" /\ UNCHANGED otDue
       ELSE /\ otDue' = IF last_asking = NoTime THEN now
                        ELSE last_asking + Intervals
            /\ otpc' = "sleep"
    /\ UNCHANGED <<m_is_closed, incoming, outgoing, last_asking, evSend,
                   evRecv, now, otRet, mspc, icpc, msVars, mrVars, apc, acVars>>

\* timeout_loop_prv, `sleep_until(timeout_instant).await`.
SleepUntil ==
    /\ otpc = "sleep"
    /\ now >= otDue
    /\ otpc' = "ontimeout"
    /\ UNCHANGED <<m_is_closed, incoming, outgoing, last_asking, evSend,
                   evRecv, now, otDue, otRet, mspc, icpc, msVars, mrVars, apc,
                   acVars>>

\* on_timeout(), the closed check.
OnTimeout ==
    /\ otpc = "ontimeout"
    /\ IF m_is_closed
       THEN otRet' = "InvalidState" /\ otpc' = "end"
       ELSE otpc' = "mcast" /\ UNCHANGED otRet
    /\ UNCHANGED <<m_is_closed, incoming, outgoing, last_asking, evSend,
                   evRecv, now, otDue, mspc, icpc, msVars, mrVars, apc, acVars>>

\* multicast(message), the closed check and the push onto `outgoing`.
Multicast ==
    /\ otpc = "mcast"
    /\ IF m_is_closed
       THEN /\ otRet' = "InvalidState"
            /\ otpc' = "end"
            /\ UNCHANGED outgoing
       ELSE /\ \E id \in MsgIds :
                  outgoing' = Append(outgoing, ToVec(AddSelfId(QueryMessage(id))))
            /\ otpc' = "signal"
            /\ UNCHANGED otRet
    /\ UNCHANGED <<m_is_closed, incoming, last_asking, evSend, evRecv, now,
                   otDue, mspc, icpc, msVars, mrVars, apc, acVars>>

\* multicast(message), `event_map.insert(MdnsDiscoverEvent::Send, ())`.
MulticastSignal ==
    /\ otpc = "signal"
    /\ MdnsInsertSend
    /\ otpc' = "stamp"
    /\ UNCHANGED <<m_is_closed, incoming, outgoing, last_asking, evRecv, now,
                   otDue, otRet, msVars, mrVars, apc, acVars>>

\* on_timeout(), `last_asking = Some(Instant::now())`.
OnTimeoutStamp ==
    /\ otpc = "stamp"
    /\ last_asking' = now
    /\ otRet' = "Ok"
    /\ otpc' = "instant"
    /\ UNCHANGED <<m_is_closed, incoming, outgoing, evSend, evRecv, now,
                   otDue, mspc, icpc, msVars, mrVars, apc, acVars>>

\* send(), the closed check at the top of the loop.
MdnsSendTop ==
    /\ mspc = "top"
    /\ IF m_is_closed
       THEN msendRet' = "InvalidState" /\ UNCHANGED mspc
       ELSE mspc' = "lock" /\ UNCHANGED msendRet
    /\ UNCHANGED <<icpc, m_is_closed, incoming, outgoing, last_asking, evSend,
                   evRecv, now, otVars, msent, mrVars, apc, acVars>>

\* send(), under the lock: a queued packet is returned, otherwise the task
\* waits for the Send event (a buffered event is taken at once).
MdnsSendLock ==
    /\ mspc = "lock"
    /\ IF outgoing # <<>>
       THEN /\ msendRet' = "Ok"
            /\ msent' = Append(msent, Head(outgoing))
            /\ outgoing' = Tail(outgoing)
            /\ mspc' = "top"
            /\ UNCHANGED evSend
       ELSE /\ IF evSend
               THEN evSend' = FALSE /\ mspc' = "top"
               ELSE mspc' = "waiting" /\ UNCHANGED evSend
            /\ UNCHANGED <<outgoing, msendRet, msent>>
    /\ UNCHANGED <<icpc, m_is_closed, incoming, last_asking, evRecv, now, otVars,
                   mrVars, apc, acVars>>

\* recv(buf, from) without the self-id filter.
MdnsRecvNoSelfFilter(buf, from) ==
    /\ mrpc = "idle"
    /\ mnrecv < MaxMdnsRecv
    /\ mnrecv' = mnrecv + 1
    /\ mrecvBuf' = buf
    /\ IF ~Parses(buf)
       THEN /\ mrecvRet' = "ProtoError"
            /\ UNCHANGED <<incoming, mrpc>>
       ELSE IF ~FromVec(buf).svc
       THEN /\ mrecvRet' = "Ok"
            /\ UNCHANGED <<incoming, mrpc>>
       ELSE /\ incoming' = Append(incoming, <<FromVec(buf), from>>)
            /\ mrpc' = "pushed"
            /\ mrecvRet' = "Pending"
    /\ UNCHANGED <<m_is_closed, outgoing, last_asking, evSend, evRecv, now,
                   otVars, mspc, icpc, msVars, apc, acVars>>

\* recv(buf, from): Message::from_vec, the self-id filter, the service-name
\* filter, the push onto `incoming`.
MdnsRecv(buf, from) ==
    /\ mrpc = "idle"
    /\ mnrecv < MaxMdnsRecv
    /\ mnrecv' = mnrecv + 1
    /\ mrecvBuf' = buf
    /\ IF ~Parses(buf)
       THEN /\ mrecvRet' = "ProtoError"
            /\ UNCHANGED <<incoming, mrpc>>
       ELSE IF FromVec(buf).self
       THEN /\ mrecvRet' = "Ok"
            /\ UNCHANGED <<incoming, mrpc>>
       ELSE IF ~FromVec(buf).svc
       THEN /\ mrecvRet' = "Ok"
            /\ UNCHANGED <<incoming, mrpc>>
       ELSE /\ incoming' = Append(incoming, <<FromVec(buf), from>>)
            /\ mrpc' = "pushed"
            /\ mrecvRet' = "Pending"
    /\ UNCHANGED <<m_is_closed, outgoing, last_asking, evSend, evRecv, now,
                   otVars, mspc, icpc, msVars, apc, acVars>>

\* recv(), `event_map.insert(MdnsDiscoverEvent::Receive, ())` and return.
MdnsRecvSignal ==
    /\ mrpc = "pushed"
    /\ MdnsInsertReceive
    /\ mrecvRet' = "Ok"
    /\ mrpc' = "idle"
    /\ UNCHANGED <<m_is_closed, incoming, outgoing, last_asking, evSend, now,
                   otVars, mspc, icpc, msVars, mrecvBuf, mnrecv, acVars>>

\* The consumer calls accept().
AcceptCall ==
    /\ apc = "idle"
    /\ apc' = "top"
    /\ UNCHANGED <<m_is_closed, incoming, outgoing, last_asking, evSend,
                   evRecv, now, otVars, mspc, icpc, msVars, mrVars, acVars>>

\* accept(), the closed check at the top of the loop.
AcceptTop ==
    /\ apc = "top"
    /\ IF m_is_closed
       THEN acceptRet' = "InvalidState" /\ apc' = "idle"
       ELSE apc' = "lock" /\ UNCHANGED acceptRet
    /\ UNCHANGED <<m_is_closed, incoming, outgoing, last_asking, evSend,
                   evRecv, now, otVars, mspc, icpc, msVars, mrVars, accepted>>

\* accept(), under the lock: the oldest message is returned, otherwise the
\* task waits for the Receive event (a buffered event is taken at once).
AcceptLock ==
    /\ apc = "lock"
    /\ IF incoming # <<>>
       THEN /\ acceptRet' = "Ok"
            /\ accepted' = Append(accepted, Head(incoming))
            /\ incoming' = Tail(incoming)
            /\ apc' = "idle"
            /\ UNCHANGED evRecv
       ELSE /\ IF evRecv
               THEN evRecv' = FALSE /\ apc' = "top"
               ELSE apc' = "waiting" /\ UNCHANGED evRecv
            /\ UNCHANGED <<incoming, acceptRet, accepted>>
    /\ UNCHANGED <<m_is_closed, outgoing, last_asking, evSend, now, otVars,
                   mspc, icpc, msVars, mrVars>>

\* A task calls is_closed() (the tasks call in the order of their numbers).
IsClosedCall(w) ==
    /\ icpc[w] = "idle"
    /\ \A v \in Watchers : v < w => icpc[v] # "idle"
    /\ icpc' = [icpc EXCEPT ![w] = "call"]
    /\ UNCHANGED <<m_is_closed, incoming, outgoing, last_asking, evSend,
                   evRecv, now, otVars, mspc, msVars, mrVars, apc, acVars>>

\* is_closed(), one turn of its loop under the is_closed lock: it returns
\* on a closed session, otherwise it waits for the Send event (a buffered
\* event is taken at once).
IsClosedPoll(w) ==
    /\ icpc[w] = "call"
    /\ IF m_is_closed
       THEN icpc' = [icpc EXCEPT ![w] = "done"] /\ UNCHANGED evSend
       ELSE IF evSend
       THEN evSend' = FALSE /\ UNCHANGED icpc
       ELSE icpc' = [icpc EXCEPT ![w] = "waiting"] /\ UNCHANGED evSend
    /\ UNCHANGED <<m_is_closed, incoming, outgoing, last_asking, evRecv, now,
                   otVars, mspc, msVars, mrVars, apc, acVars>>

(***************************************************************************)
(* The initial state: every component as constructed.                      *)
(***************************************************************************)
InitAll ==
    InitMux /\ InitDns /\ InitUdp /\ InitMdns /\ InitMdnsLoops /\ InitIp

(***************************************************************************)
(* Specifications of the multiplexer.                                      *)
(***************************************************************************)
notMux == <<dnsVars, udpVars, mdnsVars, mloopVars, ipVars>>

MuxInsert == InsertAny /\ UNCHANGED notMux
MuxInsertDistinct == InsertDistinct /\ UNCHANGED notMux
MuxPollEnter == PollEnter /\ UNCHANGED notMux
MuxPollLock == PollLock /\ UNCHANGED notMux
MuxPollFuture == PollFuture /\ UNCHANGED notMux
MuxPollReinsert == PollReinsert /\ UNCHANGED notMux
MuxResolve(f) == Resolve(f) /\ UNCHANGED notMux
MuxWake(f) == WakeByRef(f) /\ UNCHANGED notMux
MuxResolveAny == \E f \in Futs : MuxResolve(f)
MuxWakeAny == \E f \in Futs : MuxWake(f)

NextMux ==
    \/ MuxInsert
    \/ MuxPollEnter
    \/ MuxPollLock
    \/ MuxPollFuture
    \/ MuxPollReinsert
    \/ MuxResolveAny
    \/ MuxWakeAny

\* Any sequence of inserts, concurrent with the consumer and the wakers.
SpecMux == InitAll /\ [][NextMux]_vars

NextMuxDistinct ==
    \/ MuxInsertDistinct
    \/ MuxPollEnter
    \/ MuxPollLock
    \/ MuxPollFuture
    \/ MuxPollReinsert
    \/ MuxResolveAny
    \/ MuxWakeAny

\* The consumer runs when scheduled, every live future eventually completes
\* and every proxy waker handed out eventually fires.
FairMux ==
    /\ WF_vars(MuxPollEnter)
    /\ WF_vars(MuxPollLock)
    /\ WF_vars(MuxPollFuture)
    /\ WF_vars(MuxPollReinsert)
    /\ \A f \in Futs : WF_vars(MuxResolve(f)) /\ WF_vars(MuxWake(f))

\* Inserts under pairwise distinct keys, with the fairness above.
SpecMuxDistinct == InitAll /\ [][NextMuxDistinct]_vars /\ FairMux

\* The consumer's thread runs while it is inside poll_next: the lock is
\* granted, the future's poll returns, the lock is granted again.  Nothing
\* is assumed about the futures completing or about their wakers.
FairPoll ==
    /\ WF_vars(MuxPollLock)
    /\ WF_vars(MuxPollFuture)
    /\ WF_vars(MuxPollReinsert)

\* Any sequence of inserts, with the fairness above.
SpecMuxPollFair == InitAll /\ [][NextMux]_vars /\ FairPoll

(***************************************************************************)
(* The resolver driven through its handle by a transport of the caller's.  *)
(***************************************************************************)
notDns == <<muxVars, udpVars, mdnsVars, mloopVars, ipVars>>

DnsCallAlloc(t) == CallAlloc(t) /\ UNCHANGED notDns
DnsCallPush(t) == CallPush(t) /\ UNCHANGED notDns
DnsCallSignal(t) == CallSignal(t) /\ UNCHANGED notDns
DnsCallWait(t) == CallWait(t) /\ UNCHANGED notDns
DnsCallFinish(t) == CallFinish(t) /\ UNCHANGED notDns
DnsSendPop == SendPop /\ UNCHANGED notDns
DnsSendCheck == SendCheck /\ UNCHANGED notDns
DnsSendWait == SendWait /\ UNCHANGED notDns
DnsRecv == (\E d \in Datagrams : Recv(d)) /\ UNCHANGED notDns
DnsClose == Close /\ UNCHANGED notDns

NextDns ==
    \/ \E t \in Lookups : DnsCallAlloc(t)
    \/ \E t \in Lookups : DnsCallPush(t)
    \/ \E t \in Lookups : DnsCallSignal(t)
    \/ \E t \in Lookups : DnsCallWait(t)
    \/ \E t \in Lookups : DnsCallFinish(t)
    \/ DnsSendPop
    \/ DnsSendCheck
    \/ DnsSendWait
    \/ DnsRecv
    \/ DnsClose

SpecDns == InitAll /\ [][NextDns]_vars

\* Every task that can run does run: the lookups once started and the
\* transport task in send().
FairDns ==
    /\ \A t \in Lookups :
          /\ WF_vars(DnsCallPush(t))
          /\ WF_vars(DnsCallSignal(t))
          /\ WF_vars(DnsCallWait(t))
          /\ WF_vars(DnsCallFinish(t))
    /\ WF_vars(DnsSendPop)
    /\ WF_vars(DnsSendCheck)
    /\ WF_vars(DnsSendWait)

SpecDnsFair == InitAll /\ [][NextDns]_vars /\ FairDns

\* The resolver with lookups that the caller may drop and with the id
\* counter wrapping.
DnsCallDrop(t) == CallDrop(t) /\ UNCHANGED notDns
DnsCallWrap == CallWrap /\ UNCHANGED notDns

NextDnsCancel ==
    \/ NextDns
    \/ \E t \in Lookups : DnsCallDrop(t)
    \/ DnsCallWrap

SpecDnsCancel == InitAll /\ [][NextDnsCancel]_vars

(***************************************************************************)
(* The resolver behind DnsLookup::with_udp_server: the two spawned tasks.  *)
(***************************************************************************)
notUdp == <<muxVars, mdnsVars, mloopVars, ipVars>>

\* call_with borrows the DnsLookup, which is alive during the call.
UdpCallAlloc(t) == facade = "alive" /\ CallAlloc(t) /\ UNCHANGED <<notUdp, udpVars>>
UdpCallPush(t) == CallPush(t) /\ UNCHANGED <<notUdp, udpVars>>
UdpCallSignal(t) == CallSignal(t) /\ UNCHANGED <<notUdp, udpVars>>
UdpCallWait(t) == CallWait(t) /\ UNCHANGED <<notUdp, udpVars>>
UdpCallFinish(t) == CallFinish(t) /\ UNCHANGED <<notUdp, udpVars>>

\* udp_send_loop: `lookup.send().await?` then `socket.send_to(buf, server)`.
UdpSendPop ==
    /\ sloop = "run"
    /\ SendPop
    /\ UNCHANGED <<notUdp, udpVars>>

UdpSendCheck ==
    /\ sloop = "run"
    /\ SendCheck
    /\ sloop' = IF sendRet' = "InvalidState" /\ spc' = "idle" THEN "exit" ELSE sloop
    /\ UNCHANGED <<notUdp, rloop, sock, facade>>

UdpSendWait ==
    /\ sloop = "run"
    /\ SendWait
    /\ UNCHANGED <<notUdp, udpVars>>

\* The send task after its loop returned: close() and socket shutdown.
UdpSendExit ==
    /\ sloop = "exit"
    /\ Close
    /\ sloop' = "stopped"
    /\ sock' = "shut"
    /\ UNCHANGED <<notUdp, rloop, facade>>

\* udp_recv_loop: `socket.recv_from` then `lookup.recv(&buf[..read_size]).await?`.
UdpRecv ==
    /\ rloop = "run"
    /\ sock = "open"
    /\ \E d \in Datagrams : Recv(d)
    /\ rloop' = IF recvRet' = "Ok" THEN "run" ELSE "exit"
    /\ UNCHANGED <<notUdp, sloop, sock, facade>>

\* udp_recv_loop: recv_from fails on the socket that was shut down.
UdpRecvIoError ==
    /\ rloop = "run"
    /\ sock = "shut"
    /\ rloop' = "exit"
    /\ UNCHANGED <<notUdp, dnsVars, sloop, sock, facade>>

\* The recv task after its loop returned: close().
UdpRecvExit ==
    /\ rloop = "exit"
    /\ Close
    /\ rloop' = "stopped"
    /\ UNCHANGED <<notUdp, sloop, sock, facade>>

\* The DnsLookup is dropped (no call_with borrows it): close().
UdpFacadeDrop ==
    /\ facade = "alive"
    /\ \A t \in Lookups : lpc[t] \in {"new", "done"}
    /\ Close
    /\ facade' = "dropped"
    /\ UNCHANGED <<notUdp, sloop, rloop, sock>>

NextUdp ==
    \/ \E t \in Lookups : UdpCallAlloc(t)
    \/ \E t \in Lookups : UdpCallPush(t)
    \/ \E t \in Lookups : UdpCallSignal(t)
    \/ \E t \in Lookups : UdpCallWait(t)
    \/ \E t \in Lookups : UdpCallFinish(t)
    \/ UdpSendPop
    \/ UdpSendCheck
    \/ UdpSendWait
    \/ UdpSendExit
    \/ UdpRecv
    \/ UdpRecvIoError
    \/ UdpRecvExit
    \/ UdpFacadeDrop

SpecUdp == InitAll /\ [][NextUdp]_vars

(***************************************************************************)
(* The discovery engine behind MdnsDiscover::all: the three spawned loops  *)
(* and the consumer calling accept().                                      *)
(***************************************************************************)
notMdns == <<muxVars, dnsVars, udpVars, ipVars>>

MlTick == Tick /\ UNCHANGED <<notMdns, mloopVars>>

\* timeout_loop_prv: `while let Some(..) = self.timeout_instant().await`.
MlTimeoutInstant ==
    /\ tloop = "run"
    /\ TimeoutInstant
    /\ tloop' = IF otpc' = "end" THEN "exit" ELSE "run"
    /\ UNCHANGED <<notMdns, msloop, mrloop, msock, mfacade>>

MlSleepUntil ==
    /\ tloop = "run"
    /\ SleepUntil
    /\ UNCHANGED <<notMdns, mloopVars>>

\* timeout_loop_prv: `self.on_timeout().await?`.
MlOnTimeout ==
    /\ tloop = "run"
    /\ OnTimeout
    /\ tloop' = IF otpc' = "end" THEN "exit" ELSE "run"
    /\ UNCHANGED <<notMdns, msloop, mrloop, msock, mfacade>>

MlMulticast ==
    /\ tloop = "run"
    /\ Multicast
    /\ tloop' = IF otpc' = "end" THEN "exit" ELSE "run"
    /\ UNCHANGED <<notMdns, msloop, mrloop, msock, mfacade>>

MlMulticastSignal ==
    /\ tloop = "run"
    /\ MulticastSignal
    /\ UNCHANGED <<notMdns, mloopVars>>

MlOnTimeoutStamp ==
    /\ tloop = "run"
    /\ OnTimeoutStamp
    /\ UNCHANGED <<notMdns, mloopVars>>

\* timeout_loop after timeout_loop_prv returned: close() and socket shutdown.
MlTimeoutExit ==
    /\ tloop = "exit"
    /\ MdnsClose
    /\ tloop' = "stopped"
    /\ msock' = "shut"
    /\ UNCHANGED <<notMdns, msloop, mrloop, mfacade>>

\* send_loop_prv: `self.send().await?`.
MlSendTop ==
    /\ msloop = "run"
    /\ MdnsSendTop
    /\ msloop' = IF m_is_closed THEN "exit" ELSE "run"
    /\ UNCHANGED <<notMdns, tloop, mrloop, msock, mfacade>>

\* send_loop_prv: send() under the lock, then `socket.send_to(buf, ..)?`
\* with the packet it returned.
MlSendLock ==
    /\ msloop = "run"
    /\ MdnsSendLock
    /\ msloop' = IF outgoing # <<>> /\ msock = "shut" THEN "exit" ELSE "run"
    /\ UNCHANGED <<notMdns, tloop, mrloop, msock, mfacade>>

\* send_loop after send_loop_prv returned: close() and socket shutdown.
MlSendExit ==
    /\ msloop = "exit"
    /\ MdnsClose
    /\ msloop' = "stopped"
    /\ msock' = "shut"
    /\ UNCHANGED <<notMdns, tloop, mrloop, mfacade>>

\* recv_loop_prv: `socket.recv_from` then `self.recv(&buf[..recv_len], from)`.
MlRecv ==
    /\ mrloop = "run"
    /\ msock = "open"
    /\ \E buf \in MdnsBufs, from \in Peers : MdnsRecv(buf, from)
    /\ mrloop' = IF mrecvRet' = "ProtoError" THEN "exit" ELSE "run"
    /\ UNCHANGED <<notMdns, tloop, msloop, msock, mfacade>>

\* recv_loop_prv: recv() signals and returns Ok, the loop goes on.
MlRecvSignal ==
    /\ mrloop = "run"
    /\ MdnsRecvSignal
    /\ UNCHANGED <<notMdns, mloopVars>>

\* recv_loop_prv: recv_from fails on the socket that was shut down.
MlRecvIoError ==
    /\ mrloop = "run"
    /\ mrpc = "idle"
    /\ msock = "shut"
    /\ mrloop' = "exit"
    /\ UNCHANGED <<notMdns, mdnsVars, tloop, msloop, msock, mfacade>>

\* recv_loop after recv_loop_prv returned: close() and socket shutdown.
MlRecvExit ==
    /\ mrloop = "exit"
    /\ MdnsClose
    /\ mrloop' = "stopped"
    /\ msock' = "shut"
    /\ UNCHANGED <<notMdns, tloop, msloop, mfacade>>

\* accept() borrows the MdnsDiscover, which is alive during the call.
MlAcceptCall == mfacade = "alive" /\ AcceptCall /\ UNCHANGED <<notMdns, mloopVars>>
MlAcceptTop == AcceptTop /\ UNCHANGED <<notMdns, mloopVars>>
MlAcceptLock == AcceptLock /\ UNCHANGED <<notMdns, mloopVars>>

\* The MdnsDiscover is dropped (no accept() borrows it): close().
MlFacadeDrop ==
    /\ mfacade = "alive"
    /\ apc = "idle"
    /\ MdnsClose
    /\ mfacade' = "dropped"
    /\ UNCHANGED <<notMdns, tloop, msloop, mrloop, msock>>

\* The three spawned tasks.
NextMdnsTasks ==
    \/ MlTick
    \/ MlTimeoutInstant
    \/ MlSleepUntil
    \/ MlOnTimeout
    \/ MlMulticast
    \/ MlMulticastSignal
    \/ MlOnTimeoutStamp
    \/ MlTimeoutExit
    \/ MlSendTop
    \/ MlSendLock
    \/ MlSendExit
    \/ MlRecv
    \/ MlRecvSignal
    \/ MlRecvIoError
    \/ MlRecvExit

NextMdns ==
    \/ NextMdnsTasks
    \/ MlAcceptCall
    \/ MlAcceptTop
    \/ MlAcceptLock
    \/ MlFacadeDrop

SpecMdns == InitAll /\ [][NextMdns]_vars

(***************************************************************************)
(* The discovery engine driven through its handles by callers of its own:  *)
(* a transport task in send(), a task delivering datagrams to recv(), a    *)
(* task in timeout_instant() / on_timeout(), a consumer in accept() and a  *)
(* caller of close().                                                      *)
(***************************************************************************)
notMdnsApi == <<muxVars, dnsVars, udpVars, mloopVars, ipVars>>

MaTick == Tick /\ UNCHANGED notMdnsApi
MaTimeoutInstant == TimeoutInstant /\ UNCHANGED notMdnsApi
MaSleepUntil == SleepUntil /\ UNCHANGED notMdnsApi
MaOnTimeout == OnTimeout /\ UNCHANGED notMdnsApi
MaMulticast == Multicast /\ UNCHANGED notMdnsApi
MaMulticastSignal == MulticastSignal /\ UNCHANGED notMdnsApi
MaOnTimeoutStamp == OnTimeoutStamp /\ UNCHANGED notMdnsApi
MaSendTop == MdnsSendTop /\ UNCHANGED notMdnsApi
MaSendLock == MdnsSendLock /\ UNCHANGED notMdnsApi
MaRecv ==
    /\ \E buf \in MdnsBufs, from \in Peers : MdnsRecv(buf, from)
    /\ UNCHANGED notMdnsApi
MaRecvSignal == MdnsRecvSignal /\ UNCHANGED notMdnsApi
MaAcceptCall == AcceptCall /\ UNCHANGED notMdnsApi
MaAcceptTop == AcceptTop /\ UNCHANGED notMdnsApi
MaAcceptLock == AcceptLock /\ UNCHANGED notMdnsApi
MaClose == MdnsClose /\ UNCHANGED notMdnsApi
MaIsClosedCall == IsClosedCall(1) /\ UNCHANGED notMdnsApi
MaIsClosedPoll == IsClosedPoll(1) /\ UNCHANGED notMdnsApi

\* The calls of a session.
NextMdnsCalls ==
    \/ MaTimeoutInstant
    \/ MaSleepUntil
    \/ MaOnTimeout
    \/ MaMulticast
    \/ MaMulticastSignal
    \/ MaOnTimeoutStamp
    \/ MaSendTop
    \/ MaSendLock
    \/ MaRecv
    \/ MaRecvSignal
    \/ MaAcceptCall
    \/ MaAcceptTop
    \/ MaAcceptLock
    \/ MaClose

\* The calls of a session as the clock advances.
NextMdnsApi ==
    \/ MaTick
    \/ NextMdnsCalls

SpecMdnsApi == InitAll /\ [][NextMdnsApi]_vars

\* The calls made at one instant of the clock, together with one task that
\* calls is_closed().
NextMdnsWait ==
    \/ NextMdnsCalls
    \/ MaIsClosedCall
    \/ MaIsClosedPoll

\* Every task that is in a call and can run does run.
FairMdnsApi ==
    /\ WF_vars(MaSendTop)
    /\ WF_vars(MaSendLock)
    /\ WF_vars(MaRecvSignal)
    /\ WF_vars(MaAcceptTop)
    /\ WF_vars(MaAcceptLock)
    /\ WF_vars(MaIsClosedPoll)
    /\ WF_vars(MaOnTimeout)
    /\ WF_vars(MaMulticast)
    /\ WF_vars(MaMulticastSignal)
    /\ WF_vars(MaOnTimeoutStamp)

SpecMdnsWaitFair == InitAll /\ [][NextMdnsWait]_vars /\ FairMdnsApi

(***************************************************************************)
(* A program that runs one of the two engines behind its spawned loops:    *)
(* a resolver and an mDNS session share no state, so the steps of the two  *)
(* are not interleaved.                                                    *)
(***************************************************************************)
NextLoops ==
    \/ (InitMdns /\ InitMdnsLoops) /\ NextUdp
    \/ (InitDns /\ InitUdp) /\ NextMdns

SpecLoops == InitAll /\ [][NextLoops]_vars

\* Tasks of the caller that wait in is_closed() of the network handle; the
\* caller keeps the MdnsDiscover and does not call accept().
MlIsClosedCall(w) == IsClosedCall(w) /\ UNCHANGED <<notMdns, mloopVars>>
MlIsClosedPoll(w) == IsClosedPoll(w) /\ UNCHANGED <<notMdns, mloopVars>>

\* The steps of each spawned task.
TimeoutTask ==
    \/ MlTimeoutInstant
    \/ MlSleepUntil
    \/ MlOnTimeout
    \/ MlMulticast
    \/ MlMulticastSignal
    \/ MlOnTimeoutStamp
    \/ MlTimeoutExit

SendTask == MlSendTop \/ MlSendLock \/ MlSendExit

\* The steps of the recv task that do not wait for the network.  (With the
\* MdnsDiscover kept, the recv task is the first task to end, so no
\* recv_from is made on a socket that was shut down.)
RecvTask == MlRecvSignal \/ MlRecvExit

NextMdnsWatch ==
    \/ MlTick
    \/ TimeoutTask
    \/ SendTask
    \/ MlRecv
    \/ RecvTask
    \/ \E w \in Watchers : MlIsClosedCall(w)
    \/ \E w \in Watchers : MlIsClosedPoll(w)

\* Every spawned task that can run does run, the clock advances, and a task
\* in is_closed() runs when woken. Nothing is assumed about the network
\* delivering datagrams.
FairMdnsTasks ==
    /\ WF_vars(MlTick)
    /\ WF_vars(TimeoutTask)
    /\ WF_vars(SendTask)
    /\ WF_vars(RecvTask)
    /\ \A w \in Watchers : WF_vars(MlIsClosedPoll(w))

SpecMdnsWatchFair == InitAll /\ [][NextMdnsWatch]_vars /\ FairMdnsTasks

(***************************************************************************)
(* One lookup_ip call, with any answer sections in the two responses.      *)
(***************************************************************************)
notIp == <<muxVars, dnsVars, udpVars, mdnsVars, mloopVars>>

IpLookupV6 == (\E a \in AnswerLists : LookupIpV6(a)) /\ UNCHANGED notIp
IpLookupV4 == (\E a \in AnswerLists : LookupIpV4(a)) /\ UNCHANGED notIp
IpLookupFail == LookupIpFail /\ UNCHANGED notIp

NextLookupIp ==
    \/ IpLookupV6
    \/ IpLookupV4
    \/ IpLookupFail

SpecLookupIp == InitAll /\ [][NextLookupIp]_vars

(***************************************************************************)
(* Claims about the multiplexer.                                           *)
(***************************************************************************)

\* C1: under pairwise distinct keys, with every future eventually completing
\* and the consumer polling again whenever it is woken, every inserted key is
\* eventually yielded, no key is yielded twice, and the value yielded with a
\* key is the value its future resolved to.
C1_ExactlyOnce ==
    /\ [](\A i, j \in 1..Len(yielded) :
            i # j => yielded[i][1] # yielded[j][1])
    /\ [](\A i \in 1..Len(yielded) :
            \E f \in 1..nfut : yielded[i] = <<keyOf[f], ValueOf(f)>>)
    /\ \A f \in Futs : (f <= nfut) ~> Yielded(f)

\* C1 witness: two keys were inserted, both were yielded, the second key
\* first.
C1_Witness ==
    /\ nfut = 2
    /\ Len(yielded) = 2
    /\ yielded[1] = <<keyOf[2], ValueOf(2)>>
    /\ yielded[2] = <<keyOf[1], ValueOf(1)>>

\* C2: a future that was still pending when a later insert() was made under
\* its key is never yielded by poll_next.
C2_OverwriteWins ==
    \A f \in superseded : ~Yielded(f)

\* C3: while the consumer is suspended (not running and not scheduled) the
\* ready queue is empty and its waker is stored; and every step that puts a
\* key on the ready queue leaves the consumer scheduled, unless the consumer
\* has been started and is about to take the lock.
C3_NoLostWakeup ==
    /\ [](pc = "idle" /\ ~woken => ready_queue = <<>> /\ waker)
    /\ [][Len(ready_queue') > Len(ready_queue) => (woken' \/ pc = "enter")]_vars

\* C3 witness: poll_next returned not-ready with the waker stored, then a
\* future's key was queued and the consumer was woken by it.
C3_Witness ==
    /\ pc = "idle"
    /\ woken
    /\ ~waker
    /\ yielded = <<>>
    /\ Len(ready_queue) = 1
    /\ futs[ready_queue[1]] # NoFut
    /\ armed = {}
    /\ resolved # {}

(***************************************************************************)
(* Claims about the resolver.                                              *)
(***************************************************************************)

\* The state of the lookups other than t is the same after the step.
OthersUntouched(t) ==
    \A u \in Lookups \ {t} :
        lpc'[u] = lpc[u] /\ lgot'[u] = lgot[u] /\ lres'[u] = lres[u]

\* The step is a recv() call.
RecvStep == nrecv' = nrecv + 1

\* The step is one of the transport task in send().
TxStep == <<spc, sendRet, sent>>' # <<spc, sendRet, sent>>

\* C4: the response a lookup holds carries the lookup's transaction id in its
\* header; a waiting lookup stops waiting only in a recv() step that accepted
\* a datagram with that id, and that step leaves every other lookup as it was.
C4_IdCorrelation ==
    /\ [](\A t \in Lookups : lpc[t] = "got" => WireId(lgot[t]) = lid[t])
    /\ [][\A t \in Lookups :
            (lpc[t] = "waiting" /\ lpc'[t] # "waiting") =>
                /\ RecvStep
                /\ recvRet' = "Ok"
                /\ lpc'[t] = "got"
                /\ WireId(lgot'[t]) = lid[t]
                /\ OthersUntouched(t)]_vars

\* C4 witness: two lookups were waiting, the response of the one started
\* second arrived first and only that lookup received it.
C4_Witness ==
    /\ NumLookups >= 2
    /\ lpc[1] = "waiting"
    /\ lpc[2] = "got"
    /\ WireId(lgot[2]) = lid[2]
    /\ lid[1] # lid[2]

\* C5: a lookup that is waiting for its response when the session is closed
\* eventually returns the lookup-canceled error with its transaction id.
C5_CancelOnClose ==
    \A t \in Lookups :
        (is_closed /\ lpc[t] = "waiting")
            ~> (lpc[t] = "done"
                /\ lres[t] = [tag |-> "LookupCanceled", code |-> lid[t]])

\* C6: a lookup whose response carries a response code other than NoError
\* returns the server error with exactly that code, and its return leaves
\* the session open and every other lookup and buffered response as it was.
C6_ServerErrorIsolation ==
    [][\A t \in Lookups :
         (lpc[t] = "got" /\ lpc'[t] = "done"
          /\ lgot[t].kind \in Rcodes \ {"NoError"}) =>
            /\ lres'[t] = [tag |-> "ServerError", code |-> lgot[t].kind]
            /\ OthersUntouched(t)
            /\ UNCHANGED <<is_closed, kvResp, kvSend, sending>>]_vars

\* C6 witness: the first lookup failed with a server error while the second
\* is still waiting on the open session.
C6_Witness ==
    /\ NumLookups >= 2
    /\ lres[1] = [tag |-> "ServerError", code |-> "NXDomain"]
    /\ lpc[2] = "waiting"
    /\ ~is_closed

\* C7: on an open session a recv() of a buffer shorter than the header fails
\* with too-short and changes neither the buffered events, the outbound
\* queue, the closed flag nor any lookup.
C7_ShortBuffer ==
    [][(RecvStep /\ ~is_closed /\ recvLen' < HeaderLen) =>
         /\ recvRet' = "TooShort"
         /\ UNCHANGED <<kvResp, kvSend, sending, is_closed, idgen, lpc, lid,
                        lgot, lres>>]_vars

\* C7 witness: recv() failed with too-short while a lookup is waiting.
C7_Witness ==
    /\ recvRet = "TooShort"
    /\ recvLen < HeaderLen
    /\ ~is_closed
    /\ \E t \in Lookups : lpc[t] = "waiting"

\* C8: a recv() call of the UDP receive loop that fails for the datagram it
\* was given (for anything but the session being closed) leaves the receive
\* loop running and the session open.
C8_BadDatagramTolerated ==
    [][(RecvStep /\ recvRet' # "InvalidState") =>
          (rloop' = "run" /\ ~is_closed')]_vars

\* C10: on a closed session send() returns the head of the outbound queue
\* while there is one and fails with invalid-state when it finds the queue
\* empty; recv() fails with invalid-state and publishes nothing.
C10_CloseSemantics ==
    /\ [][(is_closed /\ spc \in {"idle", "woke"} /\ TxStep) =>
            IF sending # <<>>
            THEN /\ sendRet' = "Ok"
                 /\ sent' = Append(sent, Head(sending))
                 /\ sending' = Tail(sending)
                 /\ spc' = "idle"
            ELSE /\ spc' = "chk"
                 /\ UNCHANGED <<sent, sending>>]_vars
    /\ [][(is_closed /\ spc = "chk" /\ TxStep) =>
            /\ sendRet' = "InvalidState"
            /\ spc' = "idle"
            /\ UNCHANGED <<sent, sending>>]_vars
    /\ [][(is_closed /\ RecvStep) =>
            /\ recvRet' = "InvalidState"
            /\ UNCHANGED <<kvResp, lpc, lgot, lres>>]_vars

\* C10 witness: the session is closed, send() has returned a packet and then
\* failed with invalid-state on the empty queue, and recv() of a full-length
\* buffer has failed with invalid-state.
C10_Witness ==
    /\ is_closed
    /\ sent # <<>>
    /\ sending = <<>>
    /\ sendRet = "InvalidState"
    /\ recvRet = "InvalidState"
    /\ recvLen = HeaderLen

(***************************************************************************)
(* Claims about the mDNS discovery engine.                                 *)
(***************************************************************************)

\* The step is an mDNS recv() call being made.
MdnsRecvStep == mnrecv' = mnrecv + 1

\* The buffer does not reach the consumer: it is not a DNS message, or the
\* message carries the session's own id, or no answer for the service name.
Dropped(b) == ~Parses(b) \/ FromVec(b).self \/ ~FromVec(b).svc

\* C9: on an open session, a recv() call of the receive loop with a buffer
\* that does not parse, or with a message that fails the self-id or the
\* service-name filter, returns Ok, enqueues nothing, and leaves the session
\* open and the receive loop running.
C9_DroppedSilently ==
    [][(MdnsRecvStep /\ ~m_is_closed /\ Dropped(mrecvBuf')) =>
          /\ mrecvRet' = "Ok"
          /\ incoming' = incoming
          /\ ~m_is_closed'
          /\ mrloop' = "run"]_vars

\* accept() returns invalid-state in this step.
AcceptFails == apc = "top" /\ apc' = "idle" /\ acceptRet' = "InvalidState"

\* C11: accept() fails with invalid-state only when the incoming queue is
\* empty: the messages recv() enqueued before close() are still returned.
C11_AcceptDrains ==
    [][AcceptFails => incoming = <<>>]_vars

\* C12: a recv() call made on a closed session fails with invalid-state and
\* leaves the incoming queue and the Receive event as they were.
C12_RecvAfterClose ==
    [][(MdnsRecvStep /\ m_is_closed) =>
          /\ mrecvRet' = "InvalidState"
          /\ UNCHANGED <<incoming, evRecv, apc>>]_vars

\* C13: a task that is suspended in the mDNS send(), accept() or
\* is_closed() when the session is closed is eventually woken and returns,
\* send() and accept() with invalid-state.
C13_CloseWakesWaiters ==
    /\ (m_is_closed /\ mspc = "waiting") ~> (msendRet = "InvalidState")
    /\ (m_is_closed /\ apc = "waiting") ~> (acceptRet = "InvalidState")
    /\ (m_is_closed /\ icpc[1] = "waiting") ~> (icpc[1] = "done")

IsPrefix(a, b) == Len(a) <= Len(b) /\ SubSeq(b, 1, Len(a)) = a

\* C15: in both engines the packets send() has returned, followed by the
\* packets still queued, are the packets pushed so far in push order: a step
\* only appends a pushed packet at the end of that sequence, and send()
\* only moves the oldest queued packet to the end of the returned ones.
C15_OutboundFifo ==
    [][/\ IsPrefix(sent, sent')
       /\ Len(sent') <= Len(sent) + 1
       /\ IsPrefix(sent \o sending, sent' \o sending')
       /\ IsPrefix(msent, msent')
       /\ Len(msent') <= Len(msent) + 1
       /\ IsPrefix(msent \o outgoing, msent' \o outgoing')]_vars

\* The mDNS send() has returned one packet and a packet with another id is
\* queued behind it.
C15_Witness ==
    /\ Len(msent) = 1
    /\ Len(outgoing) = 1
    /\ msent[1] # outgoing[1]
    /\ msendRet = "Ok"

\* The message passes both filters of recv().
Deliverable(m) == ~m.self /\ m.svc

\* C16: every message accept() has returned, and every message queued for
\* it, has no additional record named by the self-id and has an answer named
\* by the service name; every packet the session's multicast() produced is
\* one that recv() drops, and a recv() call with a dropped buffer enqueues
\* nothing; the messages accept() returns come out in the order recv()
\* enqueued them.
C16_DeliveryFilter ==
    /\ [](/\ \A i \in 1..Len(accepted) : Deliverable(accepted[i][1])
          /\ \A i \in 1..Len(incoming) : Deliverable(incoming[i][1])
          /\ \A i \in 1..Len(outgoing) : Dropped(outgoing[i])
          /\ \A i \in 1..Len(msent) : Dropped(msent[i]))
    /\ [][/\ (MdnsRecvStep /\ Dropped(mrecvBuf')) => incoming' = incoming
          /\ IsPrefix(accepted, accepted')
          /\ IsPrefix(accepted \o incoming, accepted' \o incoming')]_vars

\* accept() has returned a message, and the last recv() call was handed a
\* message with the self-id and with an answer for the service name, of
\* which nothing is queued.
C16_Witness ==
    /\ Len(accepted) = 1
    /\ acceptRet = "Ok"
    /\ mrecvBuf.kind = "Message"
    /\ mrecvBuf.self
    /\ mrecvBuf.svc
    /\ mrecvRet = "Ok"
    /\ incoming = <<>>
    /\ msent # <<>>

\* The step is timeout_instant() returning.
TimeoutInstantStep == otpc = "instant" /\ otpc' # "instant"

\* The step is on_timeout() being called (its closed check).
OnTimeoutStep == otpc = "ontimeout" /\ otpc' # "ontimeout"

\* C17: timeout_instant() returns None on a closed session; on an open
\* session it returns an instant not later than the current time while no
\* on_timeout() has succeeded, and afterwards the time the last successful
\* on_timeout() recorded plus the interval; last-asked is written only by
\* an on_timeout() that succeeds, with the time of that step; on_timeout()
\* on a closed session fails with invalid-state and changes neither the
\* outgoing queue nor last-asked.
C17_Scheduling ==
    /\ [](last_asking = NoTime => otRet # "Ok")
    /\ [][/\ (TimeoutInstantStep /\ m_is_closed) => otpc' = "end"
          /\ (TimeoutInstantStep /\ ~m_is_closed /\ last_asking = NoTime) =>
                otpc' = "sleep" /\ otDue' <= now
          /\ (TimeoutInstantStep /\ ~m_is_closed /\ last_asking # NoTime) =>
                otpc' = "sleep" /\ otDue' = last_asking + Intervals
          /\ last_asking' # last_asking =>
                otpc = "stamp" /\ otRet' = "Ok" /\ last_asking' = now
          /\ (OnTimeoutStep /\ m_is_closed) =>
                /\ otRet' = "InvalidState"
                /\ otpc' = "end"
                /\ UNCHANGED <<outgoing, last_asking>>]_vars

\* timeout_instant() has returned last-asked plus the interval one tick
\* after the on_timeout() that recorded last-asked.
C17_Witness ==
    /\ otpc = "sleep"
    /\ otRet = "Ok"
    /\ last_asking = 0
    /\ now = 1
    /\ otDue = last_asking + Intervals
    /\ ~m_is_closed

\* C18: once a session is closed, every task spawned for it ends: the send
\* and the recv task of the resolver, and the timeout, the send and the recv
\* task of the mDNS session.
C18_LoopsTerminate ==
    /\ is_closed ~> (sloop = "stopped" /\ rloop = "stopped")
    /\ m_is_closed ~>
          (tloop = "stopped" /\ msloop = "stopped" /\ mrloop = "stopped")

\* C19: in the list lookup_ip returns, no IPv4 address comes before an
\* IPv6 address.
C19_V6BeforeV4 ==
    ippc = "done" =>
        \A i, j \in 1..Len(ipRet) :
            i < j => ~(ipRet[i] = "V4" /\ ipRet[j] = "V6")

\* The query of lookup u has not been handed to the transport.
Unsent(u) == \E i \in 1..Len(sending) : sending[i] = QueryPacket(lid[u])

\* C20: a response with the id of a dropped lookup that was passed to
\* recv() after the drop is not delivered to a lookup started later under
\* the same id: while the query of the later lookup is still queued, its
\* wait does not return a response.
C20_StaleNotConsumed ==
    [][\A t, u \in Lookups :
          (/\ lpc[t] = "dropped"
           /\ lid[u] = lid[t]
           /\ lpc[u] = "signalled"
           /\ Unsent(u)) => lpc'[u] # "got"]_vars

\* The step drops the call_with future of lookup t.
DropStep(t) == lpc[t] = "waiting" /\ lpc'[t] = "dropped"

\* The drop of a lookup changes nothing of the session but the lookup: the
\* queue (with the lookup's query if it is still there), the buffered
\* events, the transport task and the other lookups are as before.
DropFrame ==
    \A t \in Lookups :
        DropStep(t) =>
            /\ UNCHANGED <<is_closed, idgen, sending, kvSend, kvResp, spc,
                           sendRet, sent, recvRet>>
            /\ OthersUntouched(t)

\* A dropped lookup is not registered: no later step hands it a response
\* or completes it.
DropUnregisters ==
    \A t \in Lookups :
        lpc[t] = "dropped" =>
            lpc'[t] = "dropped" /\ lgot'[t] = lgot[t] /\ lres'[t] = lres[t]

\* With a dropped lookup in the session, a response is buffered only when
\* no lookup waits for its id, and a lookup is handed only datagrams that
\* carry its id.
DropKeepsDelivery ==
    (\E t \in Lookups : lpc[t] = "dropped") =>
        /\ \A e \in kvResp' \ kvResp :
              ~\E u \in Lookups : lpc[u] = "waiting" /\ lid[u] = e[1]
        /\ \A u \in Lookups :
              (lpc[u] # "got" /\ lpc'[u] = "got") =>
                  PacketId(lgot'[u]) = lid[u]

\* With a dropped lookup in the session, send() called with a packet in the
\* queue returns the oldest one.
DropKeepsSend ==
    ((\E t \in Lookups : lpc[t] = "dropped")
        /\ TxStep /\ spc \in {"idle", "woke"} /\ sending # <<>>) =>
        sent' = Append(sent, Head(sending)) /\ sendRet' = "Ok"

\* No lookup started after the drop returns from call_with while its query
\* is still in the queue and its id is that of the dropped lookup: what it
\* would return is made of a datagram that answers the dropped lookup.
DropLeavesNoResponse ==
    \A t, u \in Lookups :
        (/\ lpc[t] = "dropped"
         /\ u > t
         /\ lid[u] = lid[t]
         /\ Unsent(u)) => ~(lpc[u] = "got" /\ lpc'[u] = "done")

\* C21: dropping a call_with future that waits for its response removes its
\* registration and leaves the rest of the session as it was: the other
\* lookups are completed by responses with their ids, send() returns the
\* queued packets, and no later call returns a result that it owes to the
\* drop.
C21_DropIsolated ==
    [][/\ DropFrame
       /\ DropUnregisters
       /\ DropKeepsDelivery
       /\ DropKeepsSend
       /\ DropLeavesNoResponse]_vars

(***************************************************************************)
(* Further claims about the multiplexer.                                   *)
(***************************************************************************)

\* The step is the one in which poll_next takes the lock again after a
\* future reported not-ready.
ReinsertStep == pc = "pending" /\ pc' # "pending"

\* C22: if insert(k, f2) ran while poll_next polled k's previous future f1
\* outside the lock and f1 reported not-ready, then when poll_next takes the
\* lock again f2 stays the future of k (in the map, or taken out by the same
\* call to be polled next), and f1 is not in the map when the call returns.
C22_OverwriteDuringPoll ==
    [][(ReinsertStep /\ futs[cur[1]] # NoFut) =>
          /\ futs'[cur[1]] = futs[cur[1]] \/ cur' = <<cur[1], futs[cur[1]]>>
          /\ futs'[cur[1]] # cur[2]]_vars

\* The step is the poll of the future that poll_next took out of the map.
PollStep == pc = "polling" /\ pc' # "polling"

\* C23: a future that poll_next polled and that reported not-ready is not
\* polled again before the proxy waker handed to it at that poll has fired.
C23_NoBusyPoll ==
    [][PollStep => cur[2] \notin armed]_vars

\* The step takes a future out of the map to poll it.
TakeStep == pc # "polling" /\ pc' = "polling"

\* The step is a poll in which the future completes.
ReadyStep == PollStep /\ yielded' # yielded

\* Key k has a future when poll_next looks it up in this step (the future
\* that reported not-ready has been put back by then).
HasFuture(k) == futs[k] # NoFut \/ (ReinsertStep /\ k = cur[1])

\* Keys leave the ready queue at its front and enter it at its back: the
\* future poll_next takes out is that of the first queued key that has one,
\* the keys before it are dropped from the queue, the keys behind it stay
\* in their order; any other step leaves the queue alone or appends a key.
QueueFifo ==
    /\ TakeStep =>
          \E i \in 1..Len(ready_queue) :
              /\ cur'[1] = ready_queue[i]
              /\ HasFuture(ready_queue[i])
              /\ \A j \in 1..(i - 1) : ~HasFuture(ready_queue[j])
              /\ ready_queue' = SubSeq(ready_queue, i + 1, Len(ready_queue))
    /\ (~TakeStep /\ ready_queue' # ready_queue) =>
          \/ \E k \in Keys : ready_queue' = Append(ready_queue, k)
          \/ pc' = "idle" /\ ready_queue' = <<>>
                /\ \A j \in 1..Len(ready_queue) : ~HasFuture(ready_queue[j])

\* A completion ends the call: the pair is returned, nothing else is polled
\* and the queue and the map are left as they are.
ReadyReturns ==
    ReadyStep =>
        /\ yielded' = Append(yielded, <<cur[1], ValueOf(cur[2])>>)
        /\ pc' = "idle"
        /\ cur' = NoCur
        /\ ready_queue' = ready_queue
        /\ futs' = futs

\* After a completion the key has no future in the map.
ReadyRemoves == ReadyStep => futs'[cur[1]] = NoFut

\* C24: poll_next polls the queued keys in the order in which insert() and
\* the proxy wakers queued them; when a polled future completes the call
\* returns (key, result) at once, the key has no future in the map, nothing
\* else is polled in the call and the keys still queued stay queued in their
\* order for the next call.
C24_FifoPolling ==
    [][QueueFifo /\ ReadyReturns /\ ReadyRemoves]_vars

(***************************************************************************)
(* Further claims about the resolver.                                      *)
(***************************************************************************)

\* Lookup t waits for the response with id x.
WaitsFor(t, x) == lpc[t] = "waiting" /\ lid[t] = x

\* The step is the wait of lookup t for its response.
WaitStep(t) == lpc[t] = "signalled" /\ lpc'[t] # "signalled"

\* recv() on an open session with a buffer of at least HeaderLen bytes
\* publishes the datagram: a lookup that waits for its id is handed it,
\* and with no such lookup it is buffered under its id in place of what was
\* buffered there.
RecvPublishes ==
    RecvStep =>
        /\ recvRet' = "Ok" <=> (~is_closed /\ recvLen' >= HeaderLen)
        /\ recvRet' = "Ok" =>
              \/ \E t \in Lookups :
                    /\ lpc[t] = "waiting" /\ lpc'[t] = "got"
                    /\ PacketId(lgot'[t]) = lid[t]
                    /\ lgot'[t].len = recvLen'
                    /\ kvResp' = kvResp
              \/ \E e \in kvResp' :
                    /\ PacketId(e[2]) = e[1]
                    /\ e[2].len = recvLen'
                    /\ \A t \in Lookups : ~WaitsFor(t, e[1])
                    /\ kvResp' = {x \in kvResp : x[1] # e[1]} \cup {e}
                    /\ lpc' = lpc /\ lgot' = lgot

\* A lookup that begins to wait with a response buffered under its id is
\* handed that response at once, and the response leaves the buffer; with
\* none buffered the lookup is suspended.
WaitTakesBuffered ==
    \A t \in Lookups :
        WaitStep(t) =>
            IF \E e \in kvResp : e[1] = lid[t]
            THEN \E e \in kvResp :
                    /\ e[1] = lid[t]
                    /\ lpc'[t] = "got"
                    /\ lgot'[t] = e[2]
                    /\ kvResp' = kvResp \ {e}
            ELSE lpc'[t] = "waiting" /\ kvResp' = kvResp

\* At most one response is buffered per id.
OnePerId == \A e1, e2 \in kvResp : e1[1] = e2[1] => e1 = e2

\* C25: on an open session recv() of a buffer of at least 12 bytes publishes
\* the response whether or not a lookup waits for its id; a response that
\* came in after the query was queued and before the lookup waits is handed
\* to the lookup as soon as it waits; at most one response per id is
\* buffered, a newer one replaces the older one.
C25_ResponsesBuffered ==
    /\ []OnePerId
    /\ [][RecvPublishes /\ WaitTakesBuffered]_vars

\* C25 witness: the query of lookup 1 has been sent; two responses with its
\* id came in before the lookup waits, the second is the one buffered; the
\* lookup is about to wait.
C25_Witness ==
    /\ lpc[1] = "signalled"
    /\ sent = <<QueryPacket(lid[1])>>
    /\ nrecv = 2
    /\ recvRet = "Ok"
    /\ \E d \in Datagrams :
          d.kind = "NoError" /\ kvResp = {<<lid[1], d>>}

(***************************************************************************)
(* Further claims about the Send event of the two engines.                 *)
(***************************************************************************)

\* The packets pushed onto the mDNS outbound queue so far.
Pushed == Len(msent) + Len(outgoing)

\* The largest number of packets the sessions of the model push.
MaxPushed == MaxTime + 1

\* C26: on a session that stays open, every packet pushed onto the outbound
\* queue is eventually returned by send(): the query of every lookup of the
\* resolver, and the n-th packet of the mDNS session for every n, also with
\* a task waiting in is_closed().
C26_NoMissedSend ==
    /\ \A t \in Lookups :
          (lpc[t] = "pushed") ~>
              (is_closed \/ \E i \in 1..Len(sent) : sent[i] = QueryPacket(lid[t]))
    /\ \A n \in 1..MaxPushed :
          (Pushed >= n) ~> (m_is_closed \/ Len(msent) >= n)

(***************************************************************************)
(* Termination of poll_next.                                               *)
(***************************************************************************)

\* C27: every poll_next call returns: once the call has been entered it
\* comes back, with a completion or with not-ready, whatever the futures do
\* with their proxy wakers while they are polled.
C27_PollTerminates ==
    (pc = "enter") ~> (pc = "idle")

=============================================================================
